---------------------------- MODULE Spec2Model ----------------------------
(***************************************************************************)
(* A model of the retirement-bookkeeping code of pp-final-project:         *)
(*   - the Ordered Registry, an AVL tree of retired addresses with mark    *)
(*     bits (src/forkscan-changed/avl.c),                                   *)
(*   - the Array Registry primitives: sort, binary-search mark, compaction *)
(*     (src/sort_test.c), and the array scenario that drives them,         *)
(*   - the slot table of the concurrent workload generator and the loop    *)
(*     that pre-populates it (src/forkscan_test/main.c).                    *)
(* These are separate programs or phases: each has its own specification,  *)
(* which keeps the variables of the others at their idle values.           *)
(***************************************************************************)
EXTENDS Integers, Sequences, FiniteSets, TLC

(***************************************************************************)
(* Bounds of the model.                                                    *)
(***************************************************************************)
\* Keys offered to the Ordered Registry are 1..MaxKey.
MaxKey == 6
\* Short key buffers: every buffer of at most MaxShort keys drawn from
\* 0..MaxVal, with every assignment of flags.
MaxShort == 4
MaxVal == 3
\* Long key buffers, around the sort's threshold: SORT_THRESHOLD..MaxLen keys
\* generated as (a*i + b) % m, for the moduli 1..MaxMod and MaxLen + 1.
MaxLen == 19
MaxMod == 4
\* The slot table: worker threads 1..NumThreads, keys 0..MaxSlotKey (the
\* program's table has KEY_RANGE = 1048576 slots), and at most MaxNodes
\* entries allocated in a run.
NumThreads == 2
MaxSlotKey == 0
MaxNodes == 2
\* The array scenario, scaled down: the program has INITIAL_SIZE 1000,
\* NEW_POINTERS 500000 and ITERATIONS 100 (sort_test.c:282-284) and draws
\* its keys with rand(), from 0..RAND_MAX.
INITIAL_SIZE == 2
NEW_POINTERS == 2
ITERATIONS == 2
RAND_MAX == 3
\* The pre-population loop of the workload generator: argv[2] (how many keys
\* to pre-insert) is 0..MaxPop, argv[3] (the key-space bound) is 1..MaxRange.
MaxPop == 3
MaxRange == 3

(***************************************************************************)
(* Program constants.                                                      *)
(***************************************************************************)
\* #define SORT_THRESHOLD 16
SORT_THRESHOLD == 16

VARIABLES
    \* ---- Ordered Registry (avl.c) ----
    root,       \* tree->root: NULL or a node record
    alive,      \* TRUE from avl_create until avl_destroy
    avlOp,      \* the last public call: "avl_create", "avl_insert", ...
    avlKey,     \* its key argument (0 when it has none)
    avlRet,     \* its return value (0 when it has none)
    repeated,   \* TRUE when that call is an avl_insert or avl_mark that repeats the
                \* call before it (same function, same key)
    rotated,    \* number of rotations that call performed
    called,     \* the keys avl_insert has been called with since avl_create
    \* ---- Array Registry (sort_test.c) ----
    array,      \* the key buffer, a function on the indices 0..capacity-1
    flags,      \* the parallel flag buffer (0 = unmarked, 1 = marked)
    curr_n,     \* the live length n
    arrOp,      \* the last call: "none", "sort", "binary_search_mark", "filter"
    arrTarget,  \* binary_search_mark's target (0 for the other calls)
    arrRet,     \* binary_search_mark's return value (0 for the other calls)
    array0,     \* the key buffer on entry to that call
    flags0,     \* the flag buffer on entry to that call
    n0,         \* the live length on entry to that call
    calls,      \* the quicksort invocations of that call, when it is a sort
    iter,       \* test_quicksort_scenario: the loop counter
    phase,      \* test_quicksort_scenario: the statement it is about to run
    \* ---- slot table of the workload generator (main.c) ----
    table,      \* array[]: key -> the entry in the slot, or NullPtr
    heap,       \* the entries allocated so far, by address 1..Len(heap)
    thr,        \* per thread: where it is in its call, and the call's locals
    inserted,   \* main's counter of successful pre-insertions
    argP,       \* atoi(argv[2]): the initial population size
    argR,       \* atoi(argv[3]): the key-space bound
    mainpc      \* main: "test" at the loop test, "in_add" inside its add call,
                \* "workers" once the loop is left

avlVars == <<root, alive, avlOp, avlKey, avlRet, repeated, rotated, called>>
arrVars == <<array, flags, curr_n, arrOp, arrTarget, arrRet, array0, flags0, n0,
             calls, iter, phase>>

mainVars == <<inserted, argP, argR, mainpc>>
slotVars == <<table, heap, thr, mainVars>>

vars == <<avlVars, arrVars, slotVars>>

(***************************************************************************)
(* Ordered Registry: avl.c                                                 *)
(***************************************************************************)
\* The null pointer.
NULL == [null |-> TRUE]

AvlKeys == 1..MaxKey

\* static int height(avl_node_t *node)
height(node) == IF node = NULL THEN 0 ELSE node.height

\* static int max_int(int a, int b)
max_int(a, b) == IF a > b THEN a ELSE b

\* static avl_node_t *new_node(size_t key)
new_node(key) ==
    [key |-> key, height |-> 1, marked |-> 0, left |-> NULL, right |-> NULL]

\* A rotation that forgets to move the middle subtree T2 over to y.
right_rotate_dropT2(y) ==
    LET x  == y.left
        y1 == [y EXCEPT !.left = NULL,
                        !.height = max_int(0, height(y.right)) + 1]
    IN  [x EXCEPT !.right = y1,
                  !.height = max_int(height(x.left), height(y1)) + 1]

\* static avl_node_t *right_rotate(avl_node_t *y)
right_rotate(y) ==
    LET x  == y.left
        T2 == x.right
        y1 == [y EXCEPT !.left = T2,
                        !.height = max_int(height(T2), height(y.right)) + 1]
    IN  [x EXCEPT !.right = y1,
                  !.height = max_int(height(x.left), height(y1)) + 1]

\* A rotation that hangs the rotated-down node x on the wrong side of y
\* (y->right = x instead of y->left = x).
left_rotate_wrongSide(x) ==
    LET y  == x.right
        T2 == y.left
        x1 == [x EXCEPT !.right = T2,
                        !.height = max_int(height(x.left), height(T2)) + 1]
    IN  [y EXCEPT !.right = x1,
                  !.height = max_int(height(y.left), height(x1)) + 1]

\* static avl_node_t *left_rotate(avl_node_t *x)
left_rotate(x) ==
    LET y  == x.right
        T2 == y.left
        x1 == [x EXCEPT !.right = T2,
                        !.height = max_int(height(x.left), height(T2)) + 1]
    IN  [y EXCEPT !.left = x1,
                  !.height = max_int(height(x1), height(y.right)) + 1]

\* static int get_balance(avl_node_t *node)
get_balance(node) ==
    IF node = NULL THEN 0 ELSE height(node.left) - height(node.right)

\* A balancing tail that knows the two single rotations only.
rebalance_singleOnly(node0, key) ==
    LET node    == [node0 EXCEPT !.height =
                        1 + max_int(height(node0.left), height(node0.right))]
        balance == get_balance(node)
    IN  IF balance > 1 /\ key < node.left.key
          THEN [node |-> right_rotate(node), rots |-> 1]
        ELSE IF balance < -1 /\ key > node.right.key
          THEN [node |-> left_rotate(node), rots |-> 1]
        ELSE [node |-> node, rots |-> 0]

\* The balancing tail of insert_node (avl.c:78-96), applied to the node whose
\* child has just been replaced: the new height, then at most one of the four
\* rotation patterns.  rots counts the rotations performed.
rebalance(node0, key) ==
    LET node    == [node0 EXCEPT !.height =
                        1 + max_int(height(node0.left), height(node0.right))]
        balance == get_balance(node)
    IN  IF balance > 1 /\ key < node.left.key
          THEN [node |-> right_rotate(node), rots |-> 1]
        ELSE IF balance < -1 /\ key > node.right.key
          THEN [node |-> left_rotate(node), rots |-> 1]
        ELSE IF balance > 1 /\ key > node.left.key
          THEN [node |-> right_rotate([node EXCEPT !.left = left_rotate(node.left)]),
                rots |-> 2]
        ELSE IF balance < -1 /\ key < node.right.key
          THEN [node |-> left_rotate([node EXCEPT !.right = right_rotate(node.right)]),
                rots |-> 2]
        ELSE [node |-> node, rots |-> 0]

\* An insert_node whose right branch is a plain "else": an equal key is
\* inserted again, to the right.
RECURSIVE insert_node_dupRight(_, _)
insert_node_dupRight(node, key) ==
    IF node = NULL
      THEN [node |-> new_node(key), inserted |-> 1, rots |-> 0]
    ELSE IF key < node.key
      THEN LET r == insert_node_dupRight(node.left, key)
               b == rebalance([node EXCEPT !.left = r.node], key)
           IN  [node |-> b.node, inserted |-> r.inserted, rots |-> r.rots + b.rots]
    ELSE LET r == insert_node_dupRight(node.right, key)
             b == rebalance([node EXCEPT !.right = r.node], key)
         IN  [node |-> b.node, inserted |-> r.inserted, rots |-> r.rots + b.rots]

\* An insert_node that re-initialises the mark of a key it finds present.
RECURSIVE insert_node_dupUnmarks(_, _)
insert_node_dupUnmarks(node, key) ==
    IF node = NULL
      THEN [node |-> new_node(key), inserted |-> 1, rots |-> 0]
    ELSE IF key < node.key
      THEN LET r == insert_node_dupUnmarks(node.left, key)
               b == rebalance([node EXCEPT !.left = r.node], key)
           IN  [node |-> b.node, inserted |-> r.inserted, rots |-> r.rots + b.rots]
    ELSE IF key > node.key
      THEN LET r == insert_node_dupUnmarks(node.right, key)
               b == rebalance([node EXCEPT !.right = r.node], key)
           IN  [node |-> b.node, inserted |-> r.inserted, rots |-> r.rots + b.rots]
    ELSE [node |-> [node EXCEPT !.marked = 0], inserted |-> 0, rots |-> 0]

\* static avl_node_t *insert_node(avl_node_t *node, size_t key, int *inserted)
\* The result carries the returned subtree, the value left in *inserted and
\* the number of rotations done on the way back up.
RECURSIVE insert_node(_, _)
insert_node(node, key) ==
    IF node = NULL
      THEN [node |-> new_node(key), inserted |-> 1, rots |-> 0]
    ELSE IF key < node.key
      THEN LET r == insert_node(node.left, key)
               b == rebalance([node EXCEPT !.left = r.node], key)
           IN  [node |-> b.node, inserted |-> r.inserted, rots |-> r.rots + b.rots]
    ELSE IF key > node.key
      THEN LET r == insert_node(node.right, key)
               b == rebalance([node EXCEPT !.right = r.node], key)
           IN  [node |-> b.node, inserted |-> r.inserted, rots |-> r.rots + b.rots]
    ELSE [node |-> node, inserted |-> 0, rots |-> 0]

\* static int contains_node(avl_node_t *node, size_t key)
RECURSIVE contains_node(_, _)
contains_node(node, key) ==
    IF node = NULL THEN 0
    ELSE IF key = node.key THEN 1
    ELSE IF key < node.key THEN contains_node(node.left, key)
    ELSE contains_node(node.right, key)

\* A mark_node that flips the flag (node->marked = !node->marked).
RECURSIVE mark_node_toggle(_, _)
mark_node_toggle(node, key) ==
    IF node = NULL THEN [node |-> node, found |-> 0]
    ELSE IF key = node.key
      THEN [node  |-> [node EXCEPT !.marked = 1 - node.marked], found |-> 1]
    ELSE IF key < node.key
      THEN LET r == mark_node_toggle(node.left, key)
           IN  [node |-> [node EXCEPT !.left = r.node], found |-> r.found]
    ELSE LET r == mark_node_toggle(node.right, key)
         IN  [node |-> [node EXCEPT !.right = r.node], found |-> r.found]

\* static int mark_node(avl_node_t *node, size_t key, int *found)
\* The result carries the subtree after the call and the value left in
\* *found (avl_mark initialises it to 0).
RECURSIVE mark_node(_, _)
mark_node(node, key) ==
    IF node = NULL THEN [node |-> node, found |-> 0]
    ELSE IF key = node.key
      THEN [node  |-> IF node.marked = 0 THEN [node EXCEPT !.marked = 1] ELSE node,
            found |-> 1]
    ELSE IF key < node.key
      THEN LET r == mark_node(node.left, key)
           IN  [node |-> [node EXCEPT !.left = r.node], found |-> r.found]
    ELSE LET r == mark_node(node.right, key)
         IN  [node |-> [node EXCEPT !.right = r.node], found |-> r.found]

\* static void inorder_traverse(node, f, data): the sequence of nodes handed
\* to the visitor f, as <<key, marked>> pairs.
RECURSIVE inorder_traverse(_)
inorder_traverse(node) ==
    IF node = NULL THEN <<>>
    ELSE inorder_traverse(node.left) \o <<<<node.key, node.marked>>>>
            \o inorder_traverse(node.right)

\* void avl_inorder(tree, f, data)
avl_inorder == inorder_traverse(root)

--------------------------------------------------------------------------
\* avl_create(): an empty tree.
AvlInit ==
    /\ root = NULL
    /\ alive = TRUE
    /\ avlOp = "avl_create"
    /\ avlKey = 0
    /\ avlRet = 0
    /\ repeated = FALSE
    /\ rotated = 0
    /\ called = {}

\* int avl_insert(avl_tree_t *tree, size_t key)
avl_insert(key) ==
    /\ alive
    /\ LET r == insert_node(root, key)
       IN  /\ root' = r.node
           /\ avlRet' = r.inserted
           /\ rotated' = r.rots
    /\ avlOp' = "avl_insert"
    /\ avlKey' = key
    /\ repeated' = (avlOp = "avl_insert" /\ avlKey = key)
    /\ called' = called \cup {key}
    /\ UNCHANGED <<alive, arrVars, slotVars>>

\* int avl_contains(avl_tree_t *tree, size_t key)
avl_contains(key) ==
    /\ alive
    /\ avlRet' = contains_node(root, key)
    /\ avlOp' = "avl_contains"
    /\ avlKey' = key
    /\ repeated' = FALSE
    /\ rotated' = 0
    /\ UNCHANGED <<root, alive, called, arrVars, slotVars>>

\* int avl_mark(avl_tree_t *tree, size_t key)
avl_mark(key) ==
    /\ alive
    /\ LET r == mark_node(root, key)
       IN  /\ root' = r.node
           /\ avlRet' = r.found
    /\ avlOp' = "avl_mark"
    /\ avlKey' = key
    /\ repeated' = (avlOp = "avl_mark" /\ avlKey = key)
    /\ rotated' = 0
    /\ UNCHANGED <<alive, called, arrVars, slotVars>>

\* void avl_destroy(avl_tree_t *tree): every node and the tree are freed; the
\* registry is not used afterwards.
avl_destroy ==
    /\ alive
    /\ alive' = FALSE
    /\ root' = NULL
    /\ avlOp' = "avl_destroy"
    /\ avlKey' = 0
    /\ avlRet' = 0
    /\ repeated' = FALSE
    /\ rotated' = 0
    /\ called' = {}
    /\ UNCHANGED <<arrVars, slotVars>>

AvlNext ==
    \/ \E key \in AvlKeys : avl_insert(key)
    \/ \E key \in AvlKeys : avl_contains(key)
    \/ \E key \in AvlKeys : avl_mark(key)
    \/ avl_destroy

(***************************************************************************)
(* Array Registry: sort_test.c                                             *)
(***************************************************************************)
\* static void swap(size_t *addrs, int n, int m)
swap(addrs, n, m) == [addrs EXCEPT ![n] = addrs[m], ![m] = addrs[n]]

\* The for loop of partition (sort_test.c:32-37).
RECURSIVE partition_loop(_, _, _, _, _)
partition_loop(addrs, i, mid, max, pivot_val) ==
    IF i < max
      THEN IF addrs[i] <= pivot_val
             THEN partition_loop(swap(addrs, i, mid), i + 1, mid + 1, max, pivot_val)
             ELSE partition_loop(addrs, i + 1, mid, max, pivot_val)
      ELSE [addrs |-> addrs, mid |-> mid]

\* A partition that leaves the pivot at the end of the range (the closing
\* swap(addrs, mid, max) is missing).
partition_noFinalSwap(addrs, min, max) ==
    LET pivot     == (min + max) \div 2
        pivot_val == addrs[pivot]
    IN  partition_loop(swap(addrs, pivot, max), min, min, max, pivot_val)

\* static int partition(size_t *addrs, int min, int max): the buffer after
\* the call and the returned index.
partition(addrs, min, max) ==
    LET pivot     == (min + max) \div 2
        pivot_val == addrs[pivot]
        r         == partition_loop(swap(addrs, pivot, max), min, min, max, pivot_val)
    IN  [addrs |-> swap(r.addrs, r.mid, max), mid |-> r.mid]

\* The inner loop of insertion_sort (sort_test.c:44-46); C evaluates j > min
\* before it reads addrs[j - 1].
RECURSIVE insertion_inner(_, _, _)
insertion_inner(addrs, j, min) ==
    IF j > min /\ addrs[j - 1] > addrs[j]
      THEN insertion_inner(swap(addrs, j, j - 1), j - 1, min)
      ELSE addrs

\* The outer loop of insertion_sort (sort_test.c:43-47).
RECURSIVE insertion_outer(_, _, _, _)
insertion_outer(addrs, i, min, max) ==
    IF i <= max
      THEN insertion_outer(insertion_inner(addrs, i, min), i + 1, min, max)
      ELSE addrs

\* static void insertion_sort(size_t *addrs, int min, int max)
insertion_sort(addrs, min, max) == insertion_outer(addrs, min + 1, min, max)

\* static void quicksort(size_t *addrs, int min, int max)
RECURSIVE quicksort(_, _, _)
quicksort(addrs, min, max) ==
    IF max - min > SORT_THRESHOLD
      THEN LET p == partition(addrs, min, max)
           IN  quicksort(quicksort(p.addrs, min, p.mid - 1), p.mid + 1, max)
      ELSE insertion_sort(addrs, min, max)

\* void forkscan_util_sort(size_t *a, int length)
forkscan_util_sort(a, length) == quicksort(a, 0, length - 1)

\* The invocations of a quicksort that already partitions when max - min
\* reaches the threshold (the test is >= instead of >).
RECURSIVE quicksort_calls_atThreshold(_, _, _)
quicksort_calls_atThreshold(addrs, min, max) ==
    IF max - min >= SORT_THRESHOLD
      THEN LET p    == partition(addrs, min, max)
               left == quicksort(p.addrs, min, p.mid - 1)
           IN  {[min |-> min, max |-> max, branch |-> "partition",
                 pivot |-> (min + max) \div 2, mid |-> p.mid]}
                   \cup quicksort_calls_atThreshold(p.addrs, min, p.mid - 1)
                   \cup quicksort_calls_atThreshold(left, p.mid + 1, max)
      ELSE {[min |-> min, max |-> max, branch |-> "insertion_sort",
             pivot |-> -1, mid |-> -1]}

\* The invocations quicksort(addrs, min, max) makes, itself included: for
\* each its range, the branch it took, and for a partitioning one the pivot
\* index it chose and the index partition returned.
RECURSIVE quicksort_calls(_, _, _)
quicksort_calls(addrs, min, max) ==
    IF max - min > SORT_THRESHOLD
      THEN LET p    == partition(addrs, min, max)
               left == quicksort(p.addrs, min, p.mid - 1)
           IN  {[min |-> min, max |-> max, branch |-> "partition",
                 pivot |-> (min + max) \div 2, mid |-> p.mid]}
                   \cup quicksort_calls(p.addrs, min, p.mid - 1)
                   \cup quicksort_calls(left, p.mid + 1, max)
      ELSE {[min |-> min, max |-> max, branch |-> "insertion_sort",
             pivot |-> -1, mid |-> -1]}

\* The while loop of binary_search_mark (sort_test.c:72-85): the flag buffer
\* after the call and the returned index.
RECURSIVE binary_search_loop(_, _, _, _, _)
binary_search_loop(arr, low, high, target, flgs) ==
    IF low <= high
      THEN LET mid == low + (high - low) \div 2
           IN  IF arr[mid] = target
                 THEN [flags |-> IF flgs[mid] = 0 THEN [flgs EXCEPT ![mid] = 1] ELSE flgs,
                       ret   |-> mid]
               ELSE IF target < arr[mid]
                 THEN binary_search_loop(arr, low, mid - 1, target, flgs)
               ELSE binary_search_loop(arr, mid + 1, high, target, flgs)
      ELSE [flags |-> flgs, ret |-> -1]

\* A binary search whose loop runs while low < high: it gives up on the last
\* candidate.
RECURSIVE binary_search_strict(_, _, _, _, _)
binary_search_strict(arr, low, high, target, flgs) ==
    IF low < high
      THEN LET mid == low + (high - low) \div 2
           IN  IF arr[mid] = target
                 THEN [flags |-> IF flgs[mid] = 0 THEN [flgs EXCEPT ![mid] = 1] ELSE flgs,
                       ret   |-> mid]
               ELSE IF target < arr[mid]
                 THEN binary_search_strict(arr, low, mid - 1, target, flgs)
               ELSE binary_search_strict(arr, mid + 1, high, target, flgs)
      ELSE [flags |-> flgs, ret |-> -1]

binary_search_mark_strict(arr, n, target, flgs) ==
    binary_search_strict(arr, 0, n - 1, target, flgs)

\* int binary_search_mark(size_t *arr, int n, size_t target, int *flags)
binary_search_mark(arr, n, target, flgs) ==
    binary_search_loop(arr, 0, n - 1, target, flgs)

\* The for loop of filter_marked_array (sort_test.c:92-98), in place.
RECURSIVE filter_loop(_, _, _, _, _)
filter_loop(arr, flgs, i, new_n, n) ==
    IF i < n
      THEN IF flgs[i] = 0
             THEN filter_loop([arr EXCEPT ![new_n] = arr[i]],
                              [flgs EXCEPT ![new_n] = 0], i + 1, new_n + 1, n)
             ELSE filter_loop(arr, flgs, i + 1, new_n, n)
      ELSE [arr |-> arr, flags |-> flgs, n |-> new_n]

\* The same loop without "flags[new_n] = 0".
RECURSIVE filter_loop_noReset(_, _, _, _, _)
filter_loop_noReset(arr, flgs, i, new_n, n) ==
    IF i < n
      THEN IF flgs[i] = 0
             THEN filter_loop_noReset([arr EXCEPT ![new_n] = arr[i]],
                                      flgs, i + 1, new_n + 1, n)
             ELSE filter_loop_noReset(arr, flgs, i + 1, new_n, n)
      ELSE [arr |-> arr, flags |-> flgs, n |-> new_n]

filter_marked_array_noReset(arr, n, flgs) == filter_loop_noReset(arr, flgs, 0, 0, n)

\* void filter_marked_array(size_t *arr, int *n, int *flags): the two buffers
\* and *n after the call.
filter_marked_array(arr, n, flgs) == filter_loop(arr, flgs, 0, 0, n)

--------------------------------------------------------------------------
\* The buffers the calls are tried on.
BufLen(a) == Cardinality(DOMAIN a)

ShortInputs == UNION {[0..(k - 1) -> 0..MaxVal] : k \in 0..MaxShort}

Moduli == (1..MaxMod) \cup {MaxLen + 1}

LongInputs ==
    {[i \in 0..(k - 1) |-> (a * i + b) % m] :
        k \in SORT_THRESHOLD..MaxLen,
        a \in 0..MaxLen, b \in 0..MaxLen, m \in Moduli}

ZeroFlags(a) == [i \in DOMAIN a |-> 0]

\* Short buffers come with every flag assignment, long ones unmarked.
FlagInputs(a) ==
    IF BufLen(a) <= MaxShort THEN [DOMAIN a -> {0, 1}] ELSE {ZeroFlags(a)}

MaxElem(a) == IF DOMAIN a = {} THEN 0
              ELSE CHOOSE v \in {a[i] : i \in DOMAIN a} : \A j \in DOMAIN a : a[j] <= v

\* The targets searched for in buffer a: its values, the gaps between them
\* and one value above them all.
Targets(a) == 0..(MaxElem(a) + 1)

ArrIdle ==
    /\ array = <<>> /\ flags = <<>> /\ curr_n = 0
    /\ arrOp = "idle" /\ arrTarget = 0 /\ arrRet = 0
    /\ array0 = <<>> /\ flags0 = <<>> /\ n0 = 0
    /\ calls = {} /\ iter = 0 /\ phase = "idle"

\* A caller's buffers before it calls one of the three primitives.
ArrInit ==
    /\ array \in ShortInputs \cup LongInputs
    /\ flags \in FlagInputs(array)
    /\ curr_n = BufLen(array)
    /\ arrOp = "none" /\ arrTarget = 0 /\ arrRet = 0
    /\ array0 = array /\ flags0 = flags /\ n0 = curr_n
    /\ calls = {} /\ iter = 0 /\ phase = "idle"

\* A call of forkscan_util_sort(array, curr_n).
Sort ==
    /\ arrOp = "none"
    /\ array' = forkscan_util_sort(array, curr_n)
    /\ calls' = quicksort_calls(array, 0, curr_n - 1)
    /\ arrOp' = "sort"
    /\ UNCHANGED <<flags, curr_n, arrTarget, arrRet, array0, flags0, n0, iter, phase,
                   avlVars, slotVars>>

\* A call of binary_search_mark(array, curr_n, target, flags).
BinarySearchMark(target) ==
    /\ arrOp = "none"
    /\ LET r == binary_search_mark(array, curr_n, target, flags)
       IN  /\ flags' = r.flags
           /\ arrRet' = r.ret
    /\ arrOp' = "binary_search_mark"
    /\ arrTarget' = target
    /\ UNCHANGED <<array, curr_n, array0, flags0, n0, calls, iter, phase,
                   avlVars, slotVars>>

\* A call of filter_marked_array(array, &curr_n, flags).
FilterMarked ==
    /\ arrOp = "none"
    /\ LET r == filter_marked_array(array, curr_n, flags)
       IN  /\ array' = r.arr
           /\ flags' = r.flags
           /\ curr_n' = r.n
    /\ arrOp' = "filter"
    /\ UNCHANGED <<arrTarget, arrRet, array0, flags0, n0, calls, iter, phase,
                   avlVars, slotVars>>

ArrNext ==
    \/ Sort
    \/ \E target \in Targets(array) : BinarySearchMark(target)
    \/ FilterMarked

(***************************************************************************)
(* The array scenario: test_quicksort_scenario, sort_test.c:290-325        *)
(***************************************************************************)
\* int total_capacity = INITIAL_SIZE + ITERATIONS * NEW_POINTERS;
total_capacity == INITIAL_SIZE + ITERATIONS * NEW_POINTERS

\* void generate_random_array(size_t *arr, int n): the contents it can leave
\* in arr[0..n-1]; every element is a value of rand().
generate_random_array(n) == [0..(n - 1) -> 0..RAND_MAX]

\* The marking loop, sort_test.c:314-316:
\* for (i = 0; i < curr_n; i += 2) binary_search_mark(array, curr_n, array[i], flags);
RECURSIVE mark_loop(_, _, _, _)
mark_loop(arr, n, i, flgs) ==
    IF i < n
      THEN mark_loop(arr, n, i + 2, binary_search_mark(arr, n, arr[i], flgs).flags)
      ELSE flgs

\* sort_test.c:292-296: the buffers are allocated (the flags zeroed by
\* calloc) and the first INITIAL_SIZE keys generated.  The keys beyond the
\* live prefix are written before they are ever read; they start as 0 here.
ScenInit ==
    /\ \E init \in generate_random_array(INITIAL_SIZE) :
          array = [i \in 0..(total_capacity - 1) |->
                      IF i < INITIAL_SIZE THEN init[i] ELSE 0]
    /\ flags = [i \in 0..(total_capacity - 1) |-> 0]
    /\ curr_n = INITIAL_SIZE
    /\ arrOp = "generate" /\ arrTarget = 0 /\ arrRet = 0
    /\ array0 = array /\ flags0 = flags /\ n0 = 0
    /\ calls = {} /\ iter = 0 /\ phase = "append"

\* An append that leaves out the loop of sort_test.c:303-305: the flags of
\* the new positions keep what earlier iterations left there.
ScenAppend_noFlagInit(batch) ==
    /\ phase = "append" /\ iter < ITERATIONS
    /\ array' = [i \in DOMAIN array |->
                    IF i >= curr_n /\ i < curr_n + NEW_POINTERS
                      THEN batch[i - curr_n] ELSE array[i]]
    /\ flags' = flags
    /\ curr_n' = curr_n + NEW_POINTERS
    /\ arrOp' = "append" /\ phase' = "sort"
    /\ array0' = array /\ flags0' = flags /\ n0' = curr_n
    /\ UNCHANGED <<arrTarget, arrRet, calls, iter, avlVars, slotVars>>

\* sort_test.c:299-306: the loop test, the batch generated behind the live
\* prefix, the flags of the new positions cleared, curr_n advanced.
ScenAppend(batch) ==
    /\ phase = "append" /\ iter < ITERATIONS
    /\ array' = [i \in DOMAIN array |->
                    IF i >= curr_n /\ i < curr_n + NEW_POINTERS
                      THEN batch[i - curr_n] ELSE array[i]]
    /\ flags' = [i \in DOMAIN flags |->
                    IF i >= curr_n /\ i < curr_n + NEW_POINTERS THEN 0 ELSE flags[i]]
    /\ curr_n' = curr_n + NEW_POINTERS
    /\ arrOp' = "append" /\ phase' = "sort"
    /\ array0' = array /\ flags0' = flags /\ n0' = curr_n
    /\ UNCHANGED <<arrTarget, arrRet, calls, iter, avlVars, slotVars>>

\* sort_test.c:309: forkscan_util_sort(array, curr_n).
ScenSort ==
    /\ phase = "sort"
    /\ array' = forkscan_util_sort(array, curr_n)
    /\ calls' = quicksort_calls(array, 0, curr_n - 1)
    /\ arrOp' = "sort" /\ phase' = "mark"
    /\ array0' = array /\ flags0' = flags /\ n0' = curr_n
    /\ UNCHANGED <<flags, curr_n, arrTarget, arrRet, iter, avlVars, slotVars>>

\* sort_test.c:314-316: the marking loop.
ScenMark ==
    /\ phase = "mark"
    /\ flags' = mark_loop(array, curr_n, 0, flags)
    /\ arrOp' = "mark_loop" /\ phase' = "filter"
    /\ array0' = array /\ flags0' = flags /\ n0' = curr_n
    /\ UNCHANGED <<array, curr_n, arrTarget, arrRet, calls, iter, avlVars, slotVars>>

\* sort_test.c:319-320: filter_marked_array(array, &curr_n, flags); iter++.
ScenFilter ==
    /\ phase = "filter"
    /\ LET r == filter_marked_array(array, curr_n, flags)
       IN  /\ array' = r.arr
           /\ flags' = r.flags
           /\ curr_n' = r.n
    /\ iter' = iter + 1
    /\ arrOp' = "filter" /\ phase' = "append"
    /\ array0' = array /\ flags0' = flags /\ n0' = curr_n
    /\ UNCHANGED <<arrTarget, arrRet, calls, avlVars, slotVars>>

\* sort_test.c:299 and 321-324: the loop ends and the buffers are freed.
ScenDone ==
    /\ phase = "append" /\ iter >= ITERATIONS
    /\ phase' = "done"
    /\ UNCHANGED <<array, flags, curr_n, arrOp, arrTarget, arrRet, array0, flags0,
                   n0, calls, iter, avlVars, slotVars>>

ScenNext ==
    \/ \E batch \in generate_random_array(NEW_POINTERS) : ScenAppend(batch)
    \/ ScenSort
    \/ ScenMark
    \/ ScenFilter
    \/ ScenDone

(***************************************************************************)
(* Slot table of the concurrent workload generator: forkscan_test/main.c   *)
(***************************************************************************)
\* The null pointer as it lies in the table (main clears it with memset 0).
NullPtr == 0

Threads == 1..NumThreads
SlotKeys == 0..MaxSlotKey

\* A thread outside any call, as worker_thread is between two operations.
\* op, key, ret and handed keep what the thread's last call was, returned
\* and handed to forkscan_retire (handed = NullPtr: nothing); oldval is the
\* local of remove_node, live only inside the call.  ret is FALSE until a
\* call has returned.
IdleThread ==
    [pc |-> "idle", op |-> "none", key |-> 0, oldval |-> NullPtr,
     ret |-> FALSE, handed |-> NullPtr]

\* worker_thread picks the next operation and its key.
Call(t, op, key, pc) ==
    /\ thr[t].pc = "idle"
    /\ thr' = [thr EXCEPT ![t] = [pc |-> pc, op |-> op, key |-> key,
                                  oldval |-> NullPtr, ret |-> FALSE,
                                  handed |-> NullPtr]]
    /\ UNCHANGED <<table, heap, avlVars, arrVars, mainVars>>

\* Entries allocated by calls that have not yet reached their allocation.
PendingAllocs == Cardinality({t \in Threads : thr[t].pc \in {"add_load", "add_cas"}})

\* add(key) is entered; the model stops adding when MaxNodes entries are
\* allocated or spoken for.
add_call(t, key) ==
    /\ Len(heap) + PendingAllocs < MaxNodes
    /\ Call(t, "add", key, "add_load")

\* add, main.c:32-35: the acquire load and the early return.
add_load(t) ==
    /\ thr[t].pc = "add_load"
    /\ LET oldval == table[thr[t].key]
       IN  thr' = [thr EXCEPT ![t] =
                IF oldval # NullPtr
                  THEN [@ EXCEPT !.pc = "idle", !.ret = FALSE]
                  ELSE [@ EXCEPT !.pc = "add_cas"]]
    /\ UNCHANGED <<table, heap, avlVars, arrVars, mainVars>>

\* An add that stores its entry with a plain exchange instead of the
\* compare-and-swap: it overwrites an occupant and reports success.
add_cas_store(t) ==
    /\ thr[t].pc = "add_cas"
    /\ LET newNode == Len(heap) + 1
       IN  /\ heap' = Append(heap, [key |-> thr[t].key, collected |-> 0,
                                    retires |-> 0, installed |-> TRUE,
                                    freed |-> FALSE])
           /\ table' = [table EXCEPT ![thr[t].key] = newNode]
           /\ thr' = [thr EXCEPT ![t].pc = "idle", ![t].ret = TRUE]
    /\ UNCHANGED <<avlVars, arrVars, mainVars>>

\* add, main.c:38-61: the entry is allocated and initialised (nothing
\* another thread can see), then the compare-and-swap from NULL; the loser
\* frees its entry.
add_cas(t) ==
    /\ thr[t].pc = "add_cas"
    /\ LET newNode == Len(heap) + 1
           success == table[thr[t].key] = NullPtr
       IN  /\ heap' = Append(heap, [key |-> thr[t].key, collected |-> 0,
                                    retires |-> 0, installed |-> success,
                                    freed |-> ~success])
           /\ table' = IF success THEN [table EXCEPT ![thr[t].key] = newNode]
                       ELSE table
           /\ thr' = [thr EXCEPT ![t].pc = "idle", ![t].ret = success]
    /\ UNCHANGED <<avlVars, arrVars, mainVars>>

\* remove_node(key) is entered.
remove_call(t, key) == Call(t, "remove_node", key, "rm_exchange")

\* remove_node, main.c:71-74: the atomic exchange of the slot with NULL.
remove_exchange(t) ==
    /\ thr[t].pc = "rm_exchange"
    /\ LET oldval == table[thr[t].key]
       IN  /\ table' = [table EXCEPT ![thr[t].key] = NullPtr]
           /\ thr' = [thr EXCEPT ![t] =
                IF oldval = NullPtr
                  THEN [@ EXCEPT !.pc = "idle", !.ret = FALSE]
                  ELSE [@ EXCEPT !.pc = "rm_collect", !.oldval = oldval]]
    /\ UNCHANGED <<heap, avlVars, arrVars, mainVars>>

\* A remove_node that hands the entry over when the flag was already set
\* (wasCollected != 0) instead of when it was clear.
remove_collect_inverted(t) ==
    /\ thr[t].pc = "rm_collect"
    /\ LET wasCollected == heap[thr[t].oldval].collected
       IN  thr' = [thr EXCEPT ![t] =
                IF wasCollected # 0
                  THEN [@ EXCEPT !.pc = "rm_retire"]
                  ELSE [@ EXCEPT !.pc = "idle", !.oldval = NullPtr, !.ret = TRUE]]
    /\ heap' = [heap EXCEPT ![thr[t].oldval].collected = 1]
    /\ UNCHANGED <<table, avlVars, arrVars, mainVars>>

\* remove_node, main.c:78-84: the atomic exchange of the entry's collected
\* flag with 1, and the test of the old value.
remove_collect(t) ==
    /\ thr[t].pc = "rm_collect"
    /\ LET wasCollected == heap[thr[t].oldval].collected
       IN  thr' = [thr EXCEPT ![t] =
                IF wasCollected = 0
                  THEN [@ EXCEPT !.pc = "rm_retire"]
                  ELSE [@ EXCEPT !.pc = "idle", !.oldval = NullPtr, !.ret = TRUE]]
    /\ heap' = [heap EXCEPT ![thr[t].oldval].collected = 1]
    /\ UNCHANGED <<table, avlVars, arrVars, mainVars>>

\* remove_node, main.c:81 and 86: forkscan_retire(oldval), then return true.
remove_retire(t) ==
    /\ thr[t].pc = "rm_retire"
    /\ heap' = [heap EXCEPT ![thr[t].oldval].retires = @ + 1]
    /\ thr' = [thr EXCEPT ![t].pc = "idle", ![t].ret = TRUE,
                          ![t].handed = thr[t].oldval, ![t].oldval = NullPtr]
    /\ UNCHANGED <<table, avlVars, arrVars, mainVars>>

\* contains(key) is entered.
contains_call(t, key) == Call(t, "contains", key, "ct_load")

\* contains, main.c:95-99: the acquire load.
contains_load(t) ==
    /\ thr[t].pc = "ct_load"
    /\ thr' = [thr EXCEPT ![t].pc = "idle",
                          ![t].ret = (table[thr[t].key] # NullPtr)]
    /\ UNCHANGED <<table, heap, avlVars, arrVars, mainVars>>

SlotIdle ==
    /\ table = <<>> /\ heap = <<>> /\ thr = <<>>
    /\ inserted = 0 /\ argP = 0 /\ argR = 0 /\ mainpc = "idle"

\* main, main.c:163: the table is cleared; nothing was pre-inserted
\* (argv[2] is 0) and the workers have started.
SlotInit ==
    /\ table = [k \in SlotKeys |-> NullPtr]
    /\ heap = <<>>
    /\ thr = [t \in Threads |-> IdleThread]
    /\ inserted = 0 /\ argP = 0 /\ argR = MaxSlotKey + 1 /\ mainpc = "workers"

\* worker_thread, main.c:127-144, for every thread.
SlotNext ==
    \/ \E t \in Threads, key \in SlotKeys : add_call(t, key)
    \/ \E t \in Threads : add_load(t)
    \/ \E t \in Threads : add_cas(t)
    \/ \E t \in Threads, key \in SlotKeys : remove_call(t, key)
    \/ \E t \in Threads : remove_exchange(t)
    \/ \E t \in Threads : remove_collect(t)
    \/ \E t \in Threads : remove_retire(t)
    \/ \E t \in Threads, key \in SlotKeys : contains_call(t, key)
    \/ \E t \in Threads : contains_load(t)

(***************************************************************************)
(* The pre-population loop of main: forkscan_test/main.c:162-172           *)
(***************************************************************************)
\* The main thread; the workers do not exist yet.
MainThread == 0

\* main.c:163-166: the table cleared, inserted = 0, the two arguments read.
PrepopInit ==
    /\ argP \in 0..MaxPop
    /\ argR \in 1..MaxRange
    /\ table = [k \in 0..(MaxRange - 1) |-> NullPtr]
    /\ heap = <<>>
    /\ thr = [t \in {MainThread} |-> IdleThread]
    /\ inserted = 0
    /\ mainpc = "test"

\* main.c:167-169: the loop test passes, k = rand() % atoi(argv[3]) is drawn
\* and add(k) is entered.
PrepopDraw(k) ==
    /\ mainpc = "test" /\ inserted < argP
    /\ k \in 0..(argR - 1)
    /\ thr' = [thr EXCEPT ![MainThread] =
                  [pc |-> "add_load", op |-> "add", key |-> k, oldval |-> NullPtr,
                   ret |-> FALSE, handed |-> NullPtr]]
    /\ mainpc' = "in_add"
    /\ UNCHANGED <<table, heap, inserted, argP, argR, avlVars, arrVars>>

\* A loop that counts every call of add, whatever it returned.
PrepopCount_everyCall ==
    /\ mainpc = "in_add" /\ thr[MainThread].pc = "idle"
    /\ inserted' = inserted + 1
    /\ mainpc' = "test"
    /\ UNCHANGED <<table, heap, thr, argP, argR, avlVars, arrVars>>

\* main.c:169-171: add has returned; if (add(k)) inserted++.
PrepopCount ==
    /\ mainpc = "in_add" /\ thr[MainThread].pc = "idle"
    /\ inserted' = IF thr[MainThread].ret THEN inserted + 1 ELSE inserted
    /\ mainpc' = "test"
    /\ UNCHANGED <<table, heap, thr, argP, argR, avlVars, arrVars>>

\* main.c:167 and 174: the loop test fails and main goes on to launch the
\* workers.
PrepopExit ==
    /\ mainpc = "test" /\ inserted >= argP
    /\ mainpc' = "workers"
    /\ UNCHANGED <<table, heap, thr, inserted, argP, argR, avlVars, arrVars>>

\* What the main thread does next once a key is drawn.
PrepopStep ==
    \/ add_load(MainThread)
    \/ add_cas(MainThread)
    \/ PrepopCount
    \/ PrepopExit

PrepopNext ==
    \/ \E k \in 0..(MaxRange - 1) : PrepopDraw(k)
    \/ PrepopStep

--------------------------------------------------------------------------
AvlIdle ==
    /\ root = NULL /\ alive = FALSE /\ avlOp = "idle" /\ avlKey = 0
    /\ avlRet = 0 /\ repeated = FALSE /\ rotated = 0 /\ called = {}

\* The Ordered Registry on its own.
Init == AvlInit /\ ArrIdle /\ SlotIdle
Next == AvlNext
Spec == Init /\ [][Next]_vars

\* The Array Registry primitives on their own.
InitArray == ArrInit /\ AvlIdle /\ SlotIdle
NextArray == ArrNext
SpecArray == InitArray /\ [][NextArray]_vars

\* The array scenario on its own.
InitScenario == ScenInit /\ AvlIdle /\ SlotIdle
NextScenario == ScenNext
SpecScenario == InitScenario /\ [][NextScenario]_vars

\* The slot table and its worker threads on their own.
InitSlot == SlotInit /\ AvlIdle /\ ArrIdle
NextSlot == SlotNext
SpecSlot == InitSlot /\ [][NextSlot]_vars

\* The pre-population loop on its own.  The main thread keeps running, and
\* the draws are fair: a key that can be drawn again and again is drawn.
InitPrepop == PrepopInit /\ AvlIdle /\ ArrIdle
NextPrepop == PrepopNext
SpecPrepop ==
    /\ InitPrepop /\ [][NextPrepop]_vars
    /\ WF_vars(PrepopStep)
    /\ \A k \in 0..(MaxRange - 1) : SF_vars(PrepopDraw(k))

(***************************************************************************)
(* Measures of a tree, computed by walking every node (never by search).   *)
(***************************************************************************)
\* The real height of a subtree.
RECURSIVE RealHeight(_)
RealHeight(node) ==
    IF node = NULL THEN 0
    ELSE 1 + max_int(RealHeight(node.left), RealHeight(node.right))

\* Number of nodes.
RECURSIVE Size(_)
Size(node) ==
    IF node = NULL THEN 0 ELSE 1 + Size(node.left) + Size(node.right)

\* The keys stored in a tree.
RECURSIVE KeysOf(_)
KeysOf(node) ==
    IF node = NULL THEN {}
    ELSE {node.key} \cup KeysOf(node.left) \cup KeysOf(node.right)

\* The keys of the nodes whose marked flag is set.
RECURSIVE MarkedKeys(_)
MarkedKeys(node) ==
    IF node = NULL THEN {}
    ELSE (IF node.marked = 1 THEN {node.key} ELSE {})
            \cup MarkedKeys(node.left) \cup MarkedKeys(node.right)

Abs(x) == IF x < 0 THEN -x ELSE x

\* Every node's two subtrees differ in real height by at most one.
RECURSIVE BalancedAt(_)
BalancedAt(node) ==
    \/ node = NULL
    \/ /\ Abs(RealHeight(node.left) - RealHeight(node.right)) <= 1
       /\ BalancedAt(node.left)
       /\ BalancedAt(node.right)

(***************************************************************************)
(* Claims about the Ordered Registry, checked under Spec.                  *)
(***************************************************************************)
InorderKeys == [i \in 1..Len(avl_inorder) |-> avl_inorder[i][1]]

\* C1: after any sequence of avl_insert calls (duplicates included) every
\* node of the tree has |real height of left subtree - real height of right
\* subtree| <= 1.
C1_Balanced == BalancedAt(root)

\* C1 witness: an insert that did a double rotation has left a tree of six
\* nodes.
C1_Witness ==
    avlOp = "avl_insert" /\ avlRet = 1 /\ rotated = 2 /\ Size(root) = 6

\* C2: after any sequence of avl_insert and avl_mark calls the in-order
\* traversal visits the keys in strictly increasing order.
C2_InorderIncreasing ==
    \A i \in 1..(Len(InorderKeys) - 1) : InorderKeys[i] < InorderKeys[i + 1]

\* C2 witness: an insert has just rotated a tree of at least four nodes, one
\* of them marked.
C2_Witness ==
    /\ avlOp = "avl_insert" /\ rotated >= 1
    /\ Len(avl_inorder) >= 4
    /\ \E i \in 1..Len(avl_inorder) : avl_inorder[i][2] = 1

\* C7: avl_insert(k) of a key not present returns 1 and adds exactly one
\* node, which is unmarked; an immediately repeated avl_insert(k) returns 0
\* and leaves the number of nodes unchanged.
C7_InsertOnce ==
    [][ avlOp' = "avl_insert" =>
          /\ avlKey' \notin KeysOf(root) =>
                /\ avlRet' = 1
                /\ Size(root') = Size(root) + 1
                /\ KeysOf(root') = KeysOf(root) \cup {avlKey'}
                /\ avlKey' \notin MarkedKeys(root')
          /\ repeated' =>
                /\ avlRet' = 0
                /\ Size(root') = Size(root)
      ]_vars

\* C7 witness: the second of two consecutive avl_insert(k) calls has returned
\* 0 on a tree of at least three nodes.
C7_Witness ==
    avlOp = "avl_insert" /\ repeated /\ avlRet = 0 /\ Size(root) >= 3

\* C8: a marked key stays marked through every later operation, and
\* avl_mark(k) of a present key returns 1 and leaves k marked, whether or
\* not k was marked before (an avl_mark step that does not end so had an
\* absent key).
C8_MarkSticks ==
    [][ /\ alive' => (root' = root \/ MarkedKeys(root) \subseteq MarkedKeys(root'))
        /\ avlOp' = "avl_mark" =>
              \/ avlRet' = 1 /\ avlKey' \in MarkedKeys(root')
              \/ avlKey' \notin KeysOf(root)
      ]_vars

\* C8 witness: avl_mark(k) called twice in a row on a present key.
C8_Witness ==
    /\ avlOp = "avl_mark" /\ repeated /\ avlRet = 1
    /\ avlKey \in MarkedKeys(root)
    /\ Size(root) >= 4

\* C9: avl_insert of a present key, avl_mark of an absent key and
\* avl_contains of any key leave the whole tree (keys, shape, stored
\* heights, marks) as it was: a step that changes the tree is an avl_insert
\* of an absent key, an avl_mark of a present key or avl_destroy.  avl_mark
\* of an absent key returns 0.
C9_FailingOpsChangeNothing ==
    [][ /\ \/ root' = root
           \/ avlOp' = "avl_insert" /\ avlKey' \notin KeysOf(root)
           \/ avlOp' = "avl_mark" /\ avlKey' \in KeysOf(root)
           \/ avlOp' = "avl_destroy"
        /\ avlOp' = "avl_mark" => (avlRet' = 0 \/ avlKey' \in KeysOf(root))
      ]_vars

\* C9 witness: avl_mark of an absent key has returned 0 on a tree that holds
\* marked and unmarked nodes.
C9_Witness ==
    /\ avlOp = "avl_mark" /\ avlRet = 0 /\ avlKey \notin KeysOf(root)
    /\ MarkedKeys(root) # {}
    /\ MarkedKeys(root) # KeysOf(root)

\* C10: while the registry lives, avl_contains(k) is 1 exactly for the keys
\* avl_insert was called with and an avl_contains call returns that answer;
\* no step (until avl_destroy) turns a contained key into a missing one.
C10_NeverLosesKey ==
    /\ [](alive =>
            /\ \A k \in AvlKeys : (contains_node(root, k) = 1) <=> (k \in called)
            /\ avlOp = "avl_contains" =>
                  avlRet = (IF avlKey \in called THEN 1 ELSE 0))
    /\ [][ alive' =>
            \/ root' = root
            \/ \A k \in AvlKeys :
                  contains_node(root, k) = 1 => contains_node(root', k) = 1
         ]_vars

\* C10 witness: avl_contains returns 1 for a key in a tree of six nodes
\* some of which are marked.
C10_Witness ==
    /\ avlOp = "avl_contains" /\ avlRet = 1
    /\ Size(root) = 6 /\ MarkedKeys(root) # {}

(***************************************************************************)
(* Claims about the Array Registry primitives, checked under SpecArray.    *)
(***************************************************************************)
\* The number of positions below n at which buffer a holds v.
Count(a, n, v) == Cardinality({i \in 0..(n - 1) : a[i] = v})

\* a[i] <= a[i+1] for every adjacent pair of the live prefix.
NonDecreasing(a, n) == \A i \in 0..(n - 2) : a[i] <= a[i + 1]

\* C4: after forkscan_util_sort the buffer is a permutation of the input
\* (each value occurs as often as before) and a[i] <= a[i+1] for every
\* adjacent pair, for every input length (0 and 1 included) and with
\* duplicates; the length and the flags are untouched.
C4_SortCorrect ==
    arrOp = "sort" =>
        /\ DOMAIN array = DOMAIN array0
        /\ \A v \in {array0[i] : i \in DOMAIN array0} \cup {array[i] : i \in DOMAIN array} :
              Count(array, curr_n, v) = Count(array0, n0, v)
        /\ NonDecreasing(array, curr_n)
        /\ curr_n = n0 /\ flags = flags0

\* C4 witness: a sorted buffer long enough to have been partitioned, whose
\* input was not sorted and held a key twice.
C4_Witness ==
    /\ arrOp = "sort"
    /\ n0 - 1 > SORT_THRESHOLD
    /\ ~NonDecreasing(array0, n0)
    /\ \E i, j \in DOMAIN array0 : i # j /\ array0[i] = array0[j]

\* C5: on a sorted buffer binary_search_mark returns the index of a target
\* that occurs exactly once and sets that index's flag to 1, leaving every
\* other flag as it was; for a target that does not occur it returns -1 and
\* changes no flag.
C5_BinarySearchMark ==
    (arrOp = "binary_search_mark" /\ NonDecreasing(array0, n0)) =>
        LET occ == {i \in 0..(n0 - 1) : array0[i] = arrTarget}
        IN  /\ Cardinality(occ) = 1 =>
                  /\ arrRet \in occ
                  /\ flags[arrRet] = 1
                  /\ \A i \in DOMAIN flags0 \ {arrRet} : flags[i] = flags0[i]
            /\ occ = {} => (arrRet = -1 /\ flags = flags0)
            /\ array = array0 /\ curr_n = n0

\* C5 witness: the target was found once, at an unmarked position of a
\* sorted buffer of at least three keys in which another key was marked.
C5_Witness ==
    /\ arrOp = "binary_search_mark" /\ NonDecreasing(array0, n0) /\ n0 >= 3
    /\ Cardinality({i \in 0..(n0 - 1) : array0[i] = arrTarget}) = 1
    /\ arrRet >= 0 /\ flags0[arrRet] = 0 /\ flags[arrRet] = 1
    /\ \E i \in DOMAIN flags0 : flags0[i] = 1

\* The positions of the live prefix whose flag is 0 on entry.
Kept == {i \in 0..(n0 - 1) : flags0[i] = 0}

\* C6: after filter_marked_array the new length is the number of positions
\* whose flag was 0, the live prefix holds exactly the keys of those
\* positions in their original order (so no position whose flag was 1
\* survives), and every flag of the new live prefix is 0.
C6_FilterCorrect ==
    arrOp = "filter" =>
        /\ curr_n = Cardinality(Kept)
        /\ \A i \in Kept : array[Cardinality({j \in Kept : j < i})] = array0[i]
        /\ \A k \in 0..(curr_n - 1) : flags[k] = 0

\* C6 witness: of four keys, not in order, the first was marked and two
\* survive; a surviving key moved down onto a position whose flag was 1.
C6_Witness ==
    /\ arrOp = "filter" /\ n0 = 4 /\ curr_n = 2
    /\ flags0[0] = 1 /\ flags0[3] = 0
    /\ ~NonDecreasing(array0, n0)

\* The number of elements of the range a quicksort invocation was given.
RangeSize(c) == c.max - c.min + 1

\* A partitioning invocation chose the middle index of its range as pivot
\* and recursed on the ranges left and right of the index partition
\* returned.
PartitionsAndRecurses(c) ==
    /\ c.pivot = (c.min + c.max) \div 2
    /\ c.mid \in c.min..c.max
    /\ \E l, r \in calls :
          /\ l.min = c.min /\ l.max = c.mid - 1
          /\ r.min = c.mid + 1 /\ r.max = c.max

\* C13 as stated: a range is sorted by insertion sort exactly when it has at
\* most 16 elements; every range of more than 16 elements is partitioned
\* around its middle element and both partitions are recursed on.
C13_InsertionUpTo16 ==
    arrOp = "sort" =>
        /\ \E c \in calls : c.min = 0 /\ c.max = n0 - 1
        /\ \A c \in calls :
              /\ c.branch = "insertion_sort" <=> RangeSize(c) <= SORT_THRESHOLD
              /\ c.branch = "partition" => PartitionsAndRecurses(c)

\* C13 amended: a range is sorted by insertion sort exactly when
\* max - min <= 16, that is when it has at most 17 elements; every range of
\* more than 17 elements is partitioned around its middle element and both
\* partitions are recursed on.
C13_InsertionUpTo17 ==
    arrOp = "sort" =>
        /\ \E c \in calls : c.min = 0 /\ c.max = n0 - 1
        /\ \A c \in calls :
              /\ c.branch = "insertion_sort" <=> RangeSize(c) <= SORT_THRESHOLD + 1
              /\ c.branch = "partition" => PartitionsAndRecurses(c)

\* C13 witness: a sort partitioned a range of 18 elements and sorted a
\* sub-range of 17 elements by insertion.
C13_Witness ==
    /\ arrOp = "sort"
    /\ \E c, d \in calls :
          /\ c.branch = "partition" /\ RangeSize(c) = SORT_THRESHOLD + 2
          /\ d.branch = "insertion_sort" /\ RangeSize(d) = SORT_THRESHOLD + 1
          /\ d.min >= c.min /\ d.max <= c.max

(***************************************************************************)
(* Claims about the array scenario, checked under SpecScenario.            *)
(***************************************************************************)
\* a[i] < a[i+1] for every adjacent pair of the live prefix.
StrictlyIncreasing(a, n) == \A i \in 0..(n - 2) : a[i] < a[i + 1]

\* C12: after every sort call and until the next append or compaction (that
\* is, while the scenario is about to mark or to compact) the live prefix of
\* the key buffer is strictly increasing, whatever keys
\* generate_random_array appended.
C12_StrictlyIncreasing ==
    phase \in {"mark", "filter"} => StrictlyIncreasing(array, curr_n)

\* C14: in every iteration the marking loop marks the keys at the positions
\* 0, 2, 4, ... of the sorted buffer, the compaction of a buffer of n keys
\* leaves n \div 2 of them, and the live length after an iteration is at
\* most the batch size.
C14_HalvesEachIteration ==
    /\ arrOp = "mark_loop" =>
          \A i \in 0..(curr_n - 1) : i % 2 = 0 => flags[i] = 1
    /\ arrOp = "filter" =>
          /\ curr_n = n0 \div 2
          /\ curr_n <= NEW_POINTERS

\* C15: whenever the scenario is about to call forkscan_util_sort, in every
\* iteration, every flag of the live prefix [0, curr_n) is 0.
C15_FlagsClearAtSort ==
    phase = "sort" => \A i \in 0..(curr_n - 1) : flags[i] = 0

\* C15 witness: in a later iteration the scenario is about to sort, and the
\* append before it has cleared a flag that an earlier marking loop had left
\* set behind the compacted prefix.
C15_Witness ==
    /\ phase = "sort" /\ iter >= 1 /\ arrOp = "append"
    /\ \E i \in n0..(curr_n - 1) : flags0[i] = 1 /\ flags[i] = 0
    /\ \A i \in 0..(curr_n - 1) : flags[i] = 0

(***************************************************************************)
(* Claims about the slot table, checked under SpecSlot.                    *)
(***************************************************************************)
Entries == 1..Len(heap)

\* The threads inside remove_node that hold entry e in oldval.
Holders(e) == {t \in Threads : thr[t].oldval = e}

\* C3: under every interleaving of add, remove_node and contains no entry
\* is handed to forkscan_retire more than once and no two threads hand over
\* the same entry; an entry taken out of its slot whose remover has finished
\* was handed over exactly once (by the one remove_node that returned true
\* for it), a remove_node that found the slot empty hands nothing over, and
\* an entry that lost its compare-and-swap is never handed over.
C3_RetireOnce ==
    /\ \A e \in Entries :
          /\ heap[e].retires <= 1
          /\ Cardinality({t \in Threads : thr[t].handed = e}) <= 1
          /\ (heap[e].installed /\ table[heap[e].key] # e /\ Holders(e) = {})
                => heap[e].retires = 1
          /\ ~heap[e].installed => (heap[e].retires = 0 /\ heap[e].freed)
    /\ \A t \in Threads :
          (thr[t].op = "remove_node" /\ thr[t].pc = "idle") =>
              /\ thr[t].ret = FALSE => thr[t].handed = NullPtr
              /\ thr[t].ret = TRUE =>
                    /\ thr[t].handed \in Entries
                    /\ heap[thr[t].handed].key = thr[t].key

\* C3 witness: two threads have returned from remove_node of the same key;
\* one returned true and handed the entry over, the other returned false
\* and handed nothing over; the entry was retired once.
C3_Witness ==
    \E t1, t2 \in Threads :
        /\ t1 # t2
        /\ thr[t1].pc = "idle" /\ thr[t2].pc = "idle"
        /\ thr[t1].op = "remove_node" /\ thr[t2].op = "remove_node"
        /\ thr[t1].key = thr[t2].key
        /\ thr[t1].ret = TRUE /\ thr[t1].handed \in Entries
        /\ heap[thr[t1].handed].retires = 1
        /\ thr[t2].ret = FALSE /\ thr[t2].handed = NullPtr

\* The sequential set the slot table implements: key k is a member exactly
\* when its slot is occupied.
Present(k) == table[k] # NullPtr

\* What a sequential set answers to op(k) when k's membership is present,
\* and k's membership after it.
SeqRet(op, present) == IF op = "add" THEN ~present ELSE present
SeqPost(op, present) ==
    IF op = "add" THEN TRUE ELSE IF op = "remove_node" THEN FALSE ELSE present

\* The step of thread t is the one atomic access at which its call takes
\* effect: the load of an add that finds an occupant, the compare-and-swap,
\* the exchange of remove_node, the load of contains.
LinPoint(t) ==
    \/ thr[t].pc = "add_load" /\ Present(thr[t].key)
    \/ thr[t].pc \in {"add_cas", "rm_exchange", "ct_load"}

\* C11: every call takes effect at one atomic access between its start and
\* its return, where it does to the set {k : slot k occupied} what the
\* sequential set operation does and returns what that operation returns;
\* no other step changes the set.  add returns true exactly when its
\* compare-and-swap put its entry into an empty slot, a losing entry never
\* enters the table, remove_node returns true exactly when its exchange took
\* an occupant out, contains returns the occupancy at its load.
C11_Linearizable ==
    /\ [](\A k \in SlotKeys :
            Present(k) =>
                /\ table[k] \in 1..Len(heap)
                /\ heap[table[k]].key = k
                /\ heap[table[k]].installed /\ ~heap[table[k]].freed)
    /\ [][ \A t \in Threads :
            thr'[t].pc # thr[t].pc =>
              LET op == thr[t].op
                  k  == thr[t].key
              IN  IF thr[t].pc = "idle"
                    THEN table' = table
                  ELSE IF LinPoint(t)
                    THEN /\ Present(k)' = SeqPost(op, Present(k))
                         /\ \A j \in SlotKeys \ {k} : table'[j] = table[j]
                         /\ IF op = "remove_node" /\ Present(k)
                              THEN thr'[t].pc = "rm_collect" /\ thr'[t].oldval = table[k]
                              ELSE /\ thr'[t].pc = "idle"
                                   /\ thr'[t].ret = SeqRet(op, Present(k))
                         /\ op = "add" =>
                              IF thr'[t].ret
                                THEN table'[k] = Len(heap') /\ heap'[Len(heap')].installed
                                ELSE table' = table
                  ELSE /\ table' = table
                       /\ thr'[t].pc = "idle" =>
                            (op = "remove_node" /\ thr'[t].ret = TRUE)
      ]_vars

\* C11 witness: two threads have returned from add of the same key; one
\* returned true and its entry is in the slot, the other lost the
\* compare-and-swap, returned false and freed its entry.
C11_Witness ==
    \E t1, t2 \in Threads :
        /\ t1 # t2
        /\ thr[t1].pc = "idle" /\ thr[t2].pc = "idle"
        /\ thr[t1].op = "add" /\ thr[t2].op = "add"
        /\ thr[t1].key = thr[t2].key
        /\ thr[t1].ret = TRUE /\ thr[t2].ret = FALSE
        /\ Present(thr[t1].key)
        /\ \E e \in Entries : ~heap[e].installed /\ heap[e].freed

(***************************************************************************)
(* Claims about the pre-population loop, checked under SpecPrepop.         *)
(***************************************************************************)
\* The keys whose slot is occupied.
PresentKeys == {k \in DOMAIN table : table[k] # NullPtr}

\* C16: when argv[2] <= argv[3] the loop is eventually left, and whenever it
\* is left exactly argv[2] distinct keys, all below argv[3], are in the
\* table; when argv[2] > argv[3] it is never left.  At every loop test the
\* counter equals the number of occupied slots: add succeeds at most once
\* per distinct key.
C16_PrepopTerminates ==
    /\ (argP <= argR) ~> (mainpc = "workers")
    /\ [](argP > argR => mainpc # "workers")
    /\ [](mainpc = "workers" =>
            /\ inserted = argP
            /\ Cardinality(PresentKeys) = argP
            /\ \A k \in PresentKeys : k < argR)
    /\ [](mainpc = "test" => inserted = Cardinality(PresentKeys))

\* C16 witness: the loop was left after it filled the whole key space
\* (argv[2] = argv[3] >= 2), every key below the bound present.
C16_Witness ==
    /\ mainpc = "workers"
    /\ argP = argR /\ argR >= 2
    /\ PresentKeys = 0..(argR - 1)
    /\ inserted = argP

==========================================================================
